---- MODULE Spec2Model ----
(***************************************************************************)
(* imgfix: for each path given on the command line, read the extension of  *)
(* the path, sniff the image format of the file's bytes, and when the      *)
(* extension is not one of the format's extensions either print the        *)
(* preferred extension or (--force) rename the file.                       *)
(*                                                                         *)
(* Strings are sequences of one-character strings, so that splitting,      *)
(* case folding and concatenation are computed as the code computes them.  *)
(* Option values are sequences of length 0 (None) or 1 (Some).             *)
(***************************************************************************)
EXTENDS Naturals, Sequences, FiniteSets

\* ---------------------------------------------------------------- bounds

\* The longest list of images given on the command line.
MaxArgs == 2

\* The paths the command line draws from.
Paths ==
  { <<"a", ".", "j", "p", "g">>,
    <<"a", ".", "g", "i", "f">>,
    <<"a", ".", "J", "P", "E", "G">>,
    <<"a", ".">>,
    <<"n">>,
    <<"d", ".", "v", "/", "n">>,
    <<".", "h">>,
    <<"d", "/", "a", ".", "j", "p", "g">> }

\* The image formats the sniffer tells apart in this model.
Formats == {"Png", "Jpeg"}

\* What a file on disk holds: the signature of a format, or bytes of no
\* known signature.
Contents == Formats \cup {"junk"}

\* ---------------------------------------------------------------- strings

None == << >>
Some(x) == <<x>>

Upper ==
  <<"A","B","C","D","E","F","G","H","I","J","K","L","M",
    "N","O","P","Q","R","S","T","U","V","W","X","Y","Z">>
Lower ==
  <<"a","b","c","d","e","f","g","h","i","j","k","l","m",
    "n","o","p","q","r","s","t","u","v","w","x","y","z">>

\* u8::to_ascii_lowercase, as UncasedStr's comparison applies it.
to_ascii_lowercase(c) ==
  IF \E k \in 1..Len(Upper) : Upper[k] = c
    THEN Lower[CHOOSE k \in 1..Len(Upper) : Upper[k] = c]
    ELSE c

\* UncasedStr == str: equal lengths and equal bytes ignoring ASCII case.
uncased_eq(s, t) ==
  /\ Len(s) = Len(t)
  /\ \A k \in 1..Len(s) : to_ascii_lowercase(s[k]) = to_ascii_lowercase(t[k])

\* The index of the last occurrence of c in s, 0 when there is none.
LastIndexOf(s, c) ==
  IF \E k \in 1..Len(s) : s[k] = c
    THEN CHOOSE k \in 1..Len(s) :
           s[k] = c /\ \A m \in (k+1)..Len(s) : s[m] # c
    ELSE 0

\* str::rsplit_once: Some(<<before, after>>) around the last c, or None.
rsplit_once(s, c) ==
  IF LastIndexOf(s, c) = 0
    THEN None
    ELSE Some(<<SubSeq(s, 1, LastIndexOf(s, c) - 1),
                SubSeq(s, LastIndexOf(s, c) + 1, Len(s))>>)

\* ---------------------------------------------------------------- errors

BadExtension(path) == [type |-> "BadExtension", path |-> path]
BadImage(path) == [type |-> "Image", path |-> path]
IoError(path) == [type |-> "Io", path |-> path]

Ok(v) == [ok |-> TRUE, val |-> v]
Err(e) == [ok |-> FALSE, val |-> e]

\* ---------------------------------------------------------------- std::path

\* The path without the trailing separators and trailing "/." that
\* Path::components does not yield.
RECURSIVE TrimTrailing(_)
TrimTrailing(p) ==
  IF Len(p) > 1 /\ p[Len(p)] = "/"
    THEN TrimTrailing(SubSeq(p, 1, Len(p) - 1))
    ELSE IF Len(p) > 2 /\ p[Len(p)] = "." /\ p[Len(p) - 1] = "/"
      THEN TrimTrailing(SubSeq(p, 1, Len(p) - 1))
      ELSE p

\* Path::file_name: the last component when it is a normal one; None for
\* a path that ends in "..", is "." or is the root.
file_name(p) ==
  LET t == TrimTrailing(p)
      last == SubSeq(t, LastIndexOf(t, "/") + 1, Len(t))
  IN  IF last = << >> \/ last = <<".">> \/ last = <<".", ".">>
        THEN None
        ELSE Some(last)

\* Path::file_stem of a file name: the part before the last '.', the whole
\* name when it has no '.' or only a leading one.
file_stem(name) ==
  LET k == LastIndexOf(name, ".")
  IN  IF k <= 1 THEN name ELSE SubSeq(name, 1, k - 1)

\* Path::with_extension: the path cut right after the stem of its file
\* name, then '.' and the extension; the path itself when it has no file
\* name.
with_extension(p, ext) ==
  IF file_name(p) = None
    THEN p
    ELSE LET t == TrimTrailing(p)
             name == file_name(p)[1]
             dir == SubSeq(t, 1, Len(t) - Len(name))
         IN  dir \o file_stem(name)
               \o (IF ext = << >> THEN << >> ELSE <<".">> \o ext)

\* ---------------------------------------------------------------- image

\* ImageFormat::extensions_str: the extensions of a format, the
\* preferred one first.
extensions_str(format) ==
  CASE format = "Png" -> << <<"p", "n", "g">> >>
    [] format = "Jpeg" -> << <<"j", "p", "g">>, <<"j", "p", "e", "g">> >>

\* image::guess_format on the bytes of a file: the format whose
\* signature the bytes start with, or an error.
image_guess_format(buffer) ==
  IF buffer \in Formats THEN Ok(buffer) ELSE Err("Unsupported")

\* ---------------------------------------------------------------- std::fs

\* fs::read: the bytes of the file at path, or an I/O error.
fs_read(files, path) ==
  IF path \in DOMAIN files THEN Ok(files[path]) ELSE Err(IoError(path))

\* fs::rename: the file at from is afterwards at to, replacing what was
\* there.
fs_rename(files, from, to) ==
  [p \in (DOMAIN files \ {from}) \cup {to} |->
     IF p = to THEN files[from] ELSE files[p]]

\* ---------------------------------------------------------------- main.rs

\* display_filename without the cut to the file name.
display_filename_whole(path) == path

display_filename(path) ==
  IF file_name(path) = None THEN path ELSE file_name(path)[1]

preferred_extension(format) == Head(extensions_str(format))

\* is_allowed_extension comparing the bytes as they are.
is_allowed_extension_cased(extension, format) ==
  \E k \in 1..Len(extensions_str(format)) :
     extensions_str(format)[k] = extension

\* is_allowed_extension looking past the first extension.
is_allowed_extension_rest(extension, format) ==
  \E k \in 2..Len(extensions_str(format)) :
     uncased_eq(extensions_str(format)[k], extension)

is_allowed_extension(extension, format) ==
  \E k \in 1..Len(extensions_str(format)) :
     uncased_eq(extensions_str(format)[k], extension)

guess_format(files, path) ==
  IF ~fs_read(files, path).ok
    THEN Err(fs_read(files, path).val)
    ELSE IF ~image_guess_format(fs_read(files, path).val).ok
      THEN Err(BadImage(path))
      ELSE Ok(image_guess_format(fs_read(files, path).val).val)

\* read_extension refusing an empty extension.
read_extension_nonempty(path) ==
  IF rsplit_once(path, ".") = None \/ rsplit_once(path, ".")[1][2] = << >>
    THEN Err(BadExtension(path))
    ELSE Ok(rsplit_once(path, ".")[1][2])

read_extension(path) ==
  IF rsplit_once(path, ".") = None
    THEN Err(BadExtension(path))
    ELSE Ok(rsplit_once(path, ".")[1][2])

\* ---------------------------------------------------------------- state

VARIABLES
  images,     \* Args.images, the paths given on the command line
  force,      \* Args.force
  fs,         \* the files on disk: path -> what the file holds
  fs0,        \* the files on disk when the process started
  i,          \* the position of run's loop in images
  pc,         \* "run": in run's loop; "main": run has returned; "exit"
  ret,        \* what run returned, once it has
  stdout,     \* the lines printed on standard output
  stderr,     \* the lines printed on the diagnostic stream
  exit_code,  \* the status the process ended with, once it has
  hist        \* per path taken up by the loop, what the loop did with it

vars ==
  <<images, force, fs, fs0, i, pc, ret, stdout, stderr, exit_code, hist>>

\* The sequences over S of length 1 to n.
SeqsUpTo(S, n) == UNION { [1..k -> S] : k \in 1..n }

Range(s) == { s[k] : k \in 1..Len(s) }

Init ==
  /\ images \in SeqsUpTo(Paths, MaxArgs)
  /\ force \in BOOLEAN
  /\ \E present \in SUBSET Range(images) : fs \in [present -> Contents]
  /\ fs0 = fs
  /\ i = 1
  /\ pc = "run"
  /\ ret = None
  /\ stdout = << >>
  /\ stderr = << >>
  /\ exit_code = None
  /\ hist = << >>

\* What one pass of the loop body records in hist.
Visit(path, ext, sniffed, format, checked, outcome, out, warn, to, after) ==
  [path |-> path, ext |-> ext, sniffed |-> sniffed, format |-> format,
   checked |-> checked, outcome |-> outcome, out |-> out, warn |-> warn,
   to |-> to, fsBefore |-> fs, fsAfter |-> after]

InLoop == pc = "run" /\ i <= Len(images)

\* The line of the suggestion printed without --force.
SuggestionLine(path, format) ==
  display_filename(path) \o <<" ", "-", ">", " ">> \o preferred_extension(format)

\* LoopBadExtension with the error only reported, the loop going on.
LoopBadExtension_continue ==
  /\ InLoop
  /\ ~read_extension(images[i]).ok
  /\ LET warning == [prefix |-> "warning: ",
                     error |-> read_extension(images[i]).val]
     IN  /\ stderr' = Append(stderr, warning)
         /\ hist' = Append(hist, Visit(images[i], None, FALSE, None, FALSE,
                                       "BadExtension", << >>, <<warning>>,
                                       None, fs))
  /\ i' = i + 1
  /\ UNCHANGED <<images, force, fs, fs0, pc, ret, stdout, exit_code>>

\* read_extension(path)? fails: run returns the error.
LoopBadExtension ==
  /\ InLoop
  /\ ~read_extension(images[i]).ok
  /\ ret' = Some(Err(read_extension(images[i]).val))
  /\ pc' = "main"
  /\ hist' = Append(hist, Visit(images[i], None, FALSE, None, FALSE,
                                "BadExtension", << >>, << >>, None, fs))
  /\ UNCHANGED <<images, force, fs, fs0, i, stdout, stderr, exit_code>>

\* LoopSniffFailed with the error returned from run, as `?` would.
LoopSniffFailed_strict ==
  /\ InLoop
  /\ read_extension(images[i]).ok
  /\ ~guess_format(fs, images[i]).ok
  /\ ret' = Some(Err(guess_format(fs, images[i]).val))
  /\ pc' = "main"
  /\ hist' = Append(hist,
               Visit(images[i], Some(read_extension(images[i]).val), TRUE,
                     None, FALSE, "SniffFailed", << >>, << >>, None, fs))
  /\ UNCHANGED <<images, force, fs, fs0, i, stdout, stderr, exit_code>>

\* guess_format(path) fails: a warning, and on to the next path.
LoopSniffFailed ==
  /\ InLoop
  /\ read_extension(images[i]).ok
  /\ ~guess_format(fs, images[i]).ok
  /\ LET warning == [prefix |-> "warning: ",
                     error |-> guess_format(fs, images[i]).val]
     IN  /\ stderr' = Append(stderr, warning)
         /\ hist' = Append(hist,
                      Visit(images[i], Some(read_extension(images[i]).val),
                            TRUE, None, FALSE, "Skipped", << >>,
                            <<warning>>, None, fs))
  /\ i' = i + 1
  /\ UNCHANGED <<images, force, fs, fs0, pc, ret, stdout, exit_code>>

\* The extension is one of the format's: nothing to do.
LoopMatch ==
  /\ InLoop
  /\ read_extension(images[i]).ok
  /\ guess_format(fs, images[i]).ok
  /\ is_allowed_extension(read_extension(images[i]).val,
                          guess_format(fs, images[i]).val)
  /\ hist' = Append(hist,
               Visit(images[i], Some(read_extension(images[i]).val), TRUE,
                     Some(guess_format(fs, images[i]).val), TRUE, "Match",
                     << >>, << >>, None, fs))
  /\ i' = i + 1
  /\ UNCHANGED <<images, force, fs, fs0, pc, ret, stdout, stderr, exit_code>>

\* The extension is not one of the format's, without --force: the
\* suggestion is printed.
LoopSuggest ==
  /\ InLoop
  /\ read_extension(images[i]).ok
  /\ guess_format(fs, images[i]).ok
  /\ ~is_allowed_extension(read_extension(images[i]).val,
                           guess_format(fs, images[i]).val)
  /\ ~force
  /\ LET line == SuggestionLine(images[i], guess_format(fs, images[i]).val)
     IN  /\ stdout' = Append(stdout, line)
         /\ hist' = Append(hist,
                      Visit(images[i], Some(read_extension(images[i]).val),
                            TRUE, Some(guess_format(fs, images[i]).val),
                            TRUE, "Suggest", <<line>>, << >>, None, fs))
  /\ i' = i + 1
  /\ UNCHANGED <<images, force, fs, fs0, pc, ret, stderr, exit_code>>

\* The extension is not one of the format's, with --force, and
\* fs::rename succeeds: the new file name is printed.
LoopRename ==
  /\ InLoop
  /\ read_extension(images[i]).ok
  /\ guess_format(fs, images[i]).ok
  /\ ~is_allowed_extension(read_extension(images[i]).val,
                           guess_format(fs, images[i]).val)
  /\ force
  /\ LET format == guess_format(fs, images[i]).val
         to == with_extension(images[i], preferred_extension(format))
         line == display_filename(to)
     IN  /\ fs' = fs_rename(fs, images[i], to)
         /\ stdout' = Append(stdout, line)
         /\ hist' = Append(hist,
                      Visit(images[i], Some(read_extension(images[i]).val),
                            TRUE, Some(format), TRUE, "Renamed", <<line>>,
                            << >>, Some(to), fs_rename(fs, images[i], to)))
  /\ i' = i + 1
  /\ UNCHANGED <<images, force, fs0, pc, ret, stderr, exit_code>>

\* LoopRenameFailed with the error only reported, the loop going on.
LoopRenameFailed_warn ==
  /\ InLoop
  /\ read_extension(images[i]).ok
  /\ guess_format(fs, images[i]).ok
  /\ ~is_allowed_extension(read_extension(images[i]).val,
                           guess_format(fs, images[i]).val)
  /\ force
  /\ LET format == guess_format(fs, images[i]).val
         to == with_extension(images[i], preferred_extension(format))
         warning == [prefix |-> "warning: ", error |-> IoError(images[i])]
     IN  /\ stderr' = Append(stderr, warning)
         /\ hist' = Append(hist,
                      Visit(images[i], Some(read_extension(images[i]).val),
                            TRUE, Some(format), TRUE, "RenameFailed", << >>,
                            <<warning>>, Some(to), fs))
  /\ i' = i + 1
  /\ UNCHANGED <<images, force, fs, fs0, pc, ret, stdout, exit_code>>

\* As LoopRename, but fs::rename fails (the directory is not writable,
\* the destination is a directory, ...): run returns the error.
LoopRenameFailed ==
  /\ InLoop
  /\ read_extension(images[i]).ok
  /\ guess_format(fs, images[i]).ok
  /\ ~is_allowed_extension(read_extension(images[i]).val,
                           guess_format(fs, images[i]).val)
  /\ force
  /\ LET format == guess_format(fs, images[i]).val
         to == with_extension(images[i], preferred_extension(format))
     IN  hist' = Append(hist,
                   Visit(images[i], Some(read_extension(images[i]).val),
                         TRUE, Some(format), TRUE, "RenameFailed", << >>,
                         << >>, Some(to), fs))
  /\ ret' = Some(Err(IoError(images[i])))
  /\ pc' = "main"
  /\ UNCHANGED <<images, force, fs, fs0, i, stdout, stderr, exit_code>>

\* The loop is through: run returns Ok(()).
RunOk ==
  /\ pc = "run"
  /\ i > Len(images)
  /\ ret' = Some(Ok(<< >>))
  /\ pc' = "main"
  /\ UNCHANGED <<images, force, fs, fs0, i, stdout, stderr, exit_code, hist>>

\* main, run having returned an error: the error is printed and the
\* process exits with status 1.
MainErr ==
  /\ pc = "main"
  /\ ~ret[1].ok
  /\ stderr' = Append(stderr, [prefix |-> "", error |-> ret[1].val])
  /\ exit_code' = Some(1)
  /\ pc' = "exit"
  /\ UNCHANGED <<images, force, fs, fs0, i, ret, stdout, hist>>

\* main, run having returned Ok: the process ends with status 0.
MainOk ==
  /\ pc = "main"
  /\ ret[1].ok
  /\ exit_code' = Some(0)
  /\ pc' = "exit"
  /\ UNCHANGED <<images, force, fs, fs0, i, ret, stdout, stderr, hist>>

Next ==
  \/ LoopBadExtension
  \/ LoopSniffFailed
  \/ LoopMatch
  \/ LoopSuggest
  \/ LoopRename
  \/ LoopRenameFailed
  \/ RunOk
  \/ MainErr
  \/ MainOk

Spec == Init /\ [][Next]_vars

\* ---------------------------------------------------------------- claims

\* The final segment of a path string: what follows its last '/'.
Basename(p) == SubSeq(p, LastIndexOf(p, "/") + 1, Len(p))

\* The part of a path string before its last '.'.
Stem(p) == SubSeq(p, 1, LastIndexOf(p, ".") - 1)

\* The same letter, in either case, or the same character.
SameLetter(a, b) ==
  a = b \/ \E k \in 1..Len(Upper) : {a, b} = {Upper[k], Lower[k]}

\* E equals, ignoring letter case, an entry of the extension set of F.
InExtensionSet(E, F) ==
  \E e \in Range(extensions_str(F)) :
     Len(e) = Len(E) /\ \A k \in 1..Len(e) : SameLetter(e[k], E[k])

Arrow == <<" ", "-", ">", " ">>

Fatal == {"BadExtension", "RenameFailed"}

\* The lines of the visits, in order.
RECURSIVE LinesOf(_)
LinesOf(h) == IF h = << >> THEN << >> ELSE h[1].out \o LinesOf(Tail(h))

\* C1: a path whose extension is not in the extension set of its sniffed
\* format, without --force, gets exactly the line "<basename> -> <preferred
\* extension>" and the files on disk stay as they were; without --force the
\* files on disk never change.
C1_SuggestOnly ==
  /\ \A k \in 1..Len(hist) :
       LET h == hist[k]
       IN  (h.format # None /\ ~InExtensionSet(h.ext[1], h.format[1]) /\ ~force)
             => /\ h.outcome = "Suggest"
                /\ h.out = << Basename(h.path) \o Arrow
                                \o extensions_str(h.format[1])[1] >>
                /\ h.fsAfter = h.fsBefore
  /\ ~force => fs = fs0 /\ stdout = LinesOf(hist)

C1_Witness ==
  \E k \in 1..Len(hist) :
     /\ hist[k].outcome = "Suggest"
     /\ hist[k].path = <<"d", "/", "a", ".", "j", "p", "g">>
     /\ hist[k].format = Some("Png")
     /\ stdout[Len(stdout)] = <<"a", ".", "j", "p", "g">> \o Arrow \o <<"p", "n", "g">>

\* C2: with --force, a path whose extension is not in the extension set of
\* its sniffed format is renamed to <stem>.<preferred extension>, the stem
\* being the part of the path before its last '.'; the original path is gone
\* and the line printed is the basename of the new path.
C2_RenamedToStemDotPreferred ==
  \A k \in 1..Len(hist) :
     LET h == hist[k]
     IN  h.outcome = "Renamed"
           => /\ h.to[1] = Stem(h.path) \o <<".">> \o extensions_str(h.format[1])[1]
              /\ h.path \notin DOMAIN h.fsAfter
              /\ h.to[1] \in DOMAIN h.fsAfter
              /\ h.out = << Basename(h.to[1]) >>

\* C3: is_allowed_extension(E, F) is true exactly when E equals, ignoring
\* letter case, an entry of the extension set of F; a path with such an
\* extension is a Match: no line, no change of the files on disk, with or
\* without --force.
C3_MatchIgnoringCase ==
  /\ \A k \in 1..Len(hist), F \in Formats :
       hist[k].ext # None
         => (is_allowed_extension(hist[k].ext[1], F)
               <=> InExtensionSet(hist[k].ext[1], F))
  /\ \A k \in 1..Len(hist) :
       LET h == hist[k]
       IN  (h.format # None /\ InExtensionSet(h.ext[1], h.format[1]))
             => /\ h.outcome = "Match"
                /\ h.out = << >>
                /\ h.fsAfter = h.fsBefore
  /\ \A k \in 1..Len(hist) :
       hist[k].outcome = "Match"
         => InExtensionSet(hist[k].ext[1], hist[k].format[1])

C3_Witness ==
  /\ force
  /\ pc = "exit"
  /\ stdout = << >>
  /\ fs = fs0
  /\ \E k \in 1..Len(hist) :
       /\ hist[k].outcome = "Match"
       /\ hist[k].path = <<"a", ".", "J", "P", "E", "G">>

\* C4: a path with no '.' in its final segment always ends the run with
\* BadExtension, and is never sniffed, reported or renamed.
C4_NoDotInFinalSegmentIsFatal ==
  \A k \in 1..Len(hist) :
     LET h == hist[k]
     IN  LastIndexOf(Basename(h.path), ".") = 0
           => /\ h.outcome = "BadExtension"
              /\ ~h.sniffed
              /\ h.out = << >>
              /\ h.fsAfter = h.fsBefore

\* The sniffing of the visit fails: the file is not readable, or holds
\* no known signature.
SniffFails(h) ==
  /\ h.ext # None
  /\ \/ h.path \notin DOMAIN h.fsBefore
     \/ h.fsBefore[h.path] \notin Formats

\* C5: when sniffing fails for a path, a warning goes to the diagnostic
\* stream, nothing is printed or renamed for it, the loop goes on with the
\* next path, and a run whose only failures are sniffing failures ends with
\* status 0 after taking up every path.
C5_SniffFailureSkips ==
  /\ \A k \in 1..Len(hist) :
       LET h == hist[k]
       IN  SniffFails(h)
             => /\ h.outcome = "Skipped"
                /\ Len(h.warn) = 1
                /\ h.warn[1].prefix = "warning: "
                /\ h.warn[1] \in Range(stderr)
                /\ h.out = << >>
                /\ h.fsAfter = h.fsBefore
                /\ \/ k < Len(hist)
                   \/ i = k + 1 /\ pc = "run"
                   \/ i = k + 1 /\ k = Len(images) /\ ret = Some(Ok(<< >>))
  /\ (pc = "exit" /\ \A k \in 1..Len(hist) : hist[k].outcome \notin Fatal)
       => exit_code = Some(0) /\ Len(hist) = Len(images)

C5_Witness ==
  /\ pc = "exit"
  /\ exit_code = Some(0)
  /\ Len(hist) = 2
  /\ hist[1].outcome = "Skipped"
  /\ hist[1].path \notin DOMAIN fs0
  /\ hist[2].outcome = "Renamed"

\* The visit met an I/O fault while reading the file's bytes.
ReadFault(h) == h.sniffed /\ h.path \notin DOMAIN h.fsBefore

\* The visit met an I/O fault while renaming the file.
RenameFault(h) == h.outcome = "RenameFailed"

\* The visit at k ended the run: it is the last one, run returned its
\* error, main printed it and the process ended with status 1.
EndedRun(k) ==
  /\ k = Len(hist)
  /\ i = k
  /\ pc # "run"
  /\ ret # None /\ ~ret[1].ok
  /\ hist[k].warn = << >>
  /\ pc = "exit"
       => /\ exit_code = Some(1)
          /\ stderr # << >>
          /\ stderr[Len(stderr)] = [prefix |-> "", error |-> ret[1].val]

\* C6 as stated: every I/O fault, while reading a file's bytes or while
\* renaming a file, ends the run; none is turned into a warning.
C6_EveryIoFaultIsFatal ==
  \A k \in 1..Len(hist) :
     (ReadFault(hist[k]) \/ RenameFault(hist[k])) => EndedRun(k)

\* C6, amended: an I/O fault while renaming a file ends the run: run
\* returns the error, main prints it and the process ends with status 1. An
\* I/O fault while reading a file's bytes is turned into a warning, and the
\* run goes on.
C6_RenameFaultIsFatal ==
  \A k \in 1..Len(hist) :
     /\ RenameFault(hist[k]) => EndedRun(k) /\ ret[1].val.type = "Io"
     /\ ReadFault(hist[k])
          => /\ hist[k].outcome = "Skipped"
             /\ hist[k].warn = << [prefix |-> "warning: ",
                                   error |-> IoError(hist[k].path)] >>

C6_Witness ==
  /\ pc = "exit"
  /\ exit_code = Some(1)
  /\ Len(hist) = 2
  /\ ReadFault(hist[1])
  /\ RenameFault(hist[2])

\* C7: a run takes up every path, in order, or stops at the first fatal
\* error: no path after it is taken up and the process ends with a status
\* other than 0; what was renamed and printed before stays renamed and
\* printed.
C7_AbortAtFirstFatal ==
  /\ Len(hist) <= Len(images)
  /\ \A k \in 1..Len(hist) :
       /\ hist[k].path = images[k]
       /\ hist[k].fsBefore = (IF k = 1 THEN fs0 ELSE hist[k-1].fsAfter)
       /\ hist[k].outcome \in Fatal => EndedRun(k)
  /\ fs = (IF hist = << >> THEN fs0 ELSE hist[Len(hist)].fsAfter)
  /\ stdout = LinesOf(hist)
  /\ pc = "exit"
       => \/ hist[Len(hist)].outcome \in Fatal /\ exit_code = Some(1)
          \/ /\ \A k \in 1..Len(hist) : hist[k].outcome \notin Fatal
             /\ Len(hist) = Len(images)
             /\ exit_code = Some(0)

C7_Witness ==
  /\ pc = "exit"
  /\ exit_code = Some(1)
  /\ Len(images) = 2
  /\ Len(hist) = 1
  /\ hist[1].outcome = "BadExtension"
  /\ images[2] \in DOMAIN fs0
  /\ fs0[images[2]] = "Png"
  /\ read_extension(images[2]).ok
  /\ ~InExtensionSet(read_extension(images[2]).val, "Png")
  /\ fs = fs0
  /\ stdout = << >>

\* C8: every format has a non-empty extension set, its preferred
\* extension is the first entry, and the preferred extension is allowed for
\* the format; so a file just renamed with --force is a Match when it is
\* taken up again.
C8_PreferredIsAllowed ==
  /\ \A F \in Formats :
       /\ extensions_str(F) # << >>
       /\ preferred_extension(F) = extensions_str(F)[1]
       /\ is_allowed_extension(preferred_extension(F), F)
  /\ \A k \in 1..Len(hist) :
       hist[k].outcome = "Renamed"
         => /\ read_extension(hist[k].to[1]).ok
            /\ guess_format(hist[k].fsAfter, hist[k].to[1]) = Ok(hist[k].format[1])
            /\ is_allowed_extension(read_extension(hist[k].to[1]).val,
                                    hist[k].format[1])
  /\ \A k \in 2..Len(hist) :
       (hist[k-1].outcome = "Renamed" /\ hist[k].path = hist[k-1].to[1])
         => hist[k].outcome = "Match"

C8_Witness ==
  /\ Len(hist) = 2
  /\ hist[1].outcome = "Renamed"
  /\ hist[1].format = Some("Jpeg")
  /\ hist[2].path = hist[1].to[1]
  /\ hist[2].outcome = "Match"

\* C9 as stated: a path with no '.', or with nothing after its last '.',
\* never reaches the reconciliation: is_allowed_extension is not evaluated
\* for it, nothing is suggested and nothing is renamed.
C9_NoExtensionNeverReconciled ==
  \A k \in 1..Len(hist) :
     LET h == hist[k]
     IN  (LastIndexOf(h.path, ".") = 0 \/ h.path[Len(h.path)] = ".")
           => ~h.checked /\ h.outcome \notin {"Suggest", "Renamed"}

\* C9, amended: a path with no '.' anywhere in it never reaches the
\* reconciliation. A path with nothing after its last '.' does: its
\* extension is the empty string, and once its format is sniffed
\* is_allowed_extension is evaluated, is false, and the suggestion or the
\* rename follows.
C9_NoDotNeverReconciled ==
  \A k \in 1..Len(hist) :
     LET h == hist[k]
     IN  /\ LastIndexOf(h.path, ".") = 0
           => /\ h.outcome = "BadExtension"
              /\ ~h.sniffed /\ ~h.checked
              /\ h.out = << >> /\ h.fsAfter = h.fsBefore
         /\ h.path[Len(h.path)] = "."
           => /\ h.ext = Some(<< >>)
              /\ h.sniffed
              /\ h.format # None
                   => /\ h.checked
                      /\ h.outcome \in {"Suggest", "Renamed", "RenameFailed"}

C9_Witness ==
  \E k \in 1..Len(hist) :
     /\ hist[k].path = <<"a", ".">>
     /\ hist[k].outcome = "Renamed"
     /\ hist[k].to = Some(<<"a", ".", "p", "n", "g">>)

\* C10: with --force, a rename never replaces another file: there are as
\* many files on disk after the run as before it.
C10_RenameKeepsEveryFile ==
  force => Cardinality(DOMAIN fs) = Cardinality(DOMAIN fs0)

====
